---- MODULE Spec2Model ----
(***************************************************************************)
(* State-machine model of split_cv_data.py: main() dispatching on the      *)
(* selected datasets, prepare_decagon_cv (read_graph_structure,            *)
(* read_ddi_instances, prepare_dataset, create_negative_instances) and     *)
(* split_decagon_cv (split_all_cross_validation_datasets and the loop that *)
(* writes one file per fold).                                              *)
(*                                                                         *)
(* Python values are modelled as follows.  A drug pair (did1, did2) is the *)
(* tuple <<did1, did2>>.  A list is a sequence.  A dict whose iteration    *)
(* order matters (side_effects) is a record [keys |-> insertion-ordered    *)
(* sequence of keys, val |-> function from key to value]; the other dicts  *)
(* are functions.  An uncaught exception ends the run: pc = "exit" with    *)
(* error naming the exception and error_line the source line raising it.   *)
(*                                                                         *)
(* Specifications.  Spec is the run of main().  prepare_decagon_cv calls   *)
(* read_ddi_instances with its default threshold of 498, so in a run a     *)
(* side effect is kept only with 498 rows or more and                      *)
(* create_negative_instances must then collect 498 pairs or more; the sets *)
(* it passes through on the way are beyond enumeration.  The runs of Spec  *)
(* therefore either keep no side effect or stay in a sampling loop that    *)
(* the listed drugs cannot satisfy.  SpecPipeline has the runs of Spec and *)
(* also the behaviours that start at a call of read_ddi_instances with a   *)
(* small threshold argument and hand its result on as the program does;    *)
(* these reach returned negative lists and non-empty folds.  The functions *)
(* are also specified on their own, started at their call with arguments   *)
(* drawn from bounded sets: read_ddi_instances (SpecRead), prepare_dataset *)
(* followed by split_decagon_cv (SpecPrepare, FairSpec) and                *)
(* split_decagon_cv (SpecSplit).                                           *)
(***************************************************************************)
EXTENDS Integers, Sequences, FiniteSets, TLC

\* Bounds of the model.
MaxRows == 3          \* data rows of the interaction CSV (after the header)
MaxFold == 3          \* largest -n_fold
MaxThreshold == 2     \* largest small threshold passed to read_ddi_instances

\* Program constants.
DefaultThreshold == 498   \* read_ddi_instances(..., threshold=498, ...)
DebugKeep == 20           \* sorted(...)[:20] when use_small_dataset

DrugUniverse == {"D1", "D2", "D3"}

\* Side-effect identifiers; the first two occur in the small CSVs.
SideEffectIds ==
  << "C01", "C02", "C03", "C04", "C05", "C06", "C07", "C08", "C09", "C10", "C11",
     "C12", "C13", "C14", "C15", "C16", "C17", "C18", "C19", "C20", "C21" >>

\* The header line of the CSV; it is a row like any other for csv.reader.
HeaderRow == << "STITCH 1", "STITCH 2", "Polypharmacy Side Effect" >>

\* Data rows (drug_id_1, drug_id_2, side_effect_id) of the small CSVs: a pair,
\* its reverse, a second pair, a row naming one drug twice, another side effect.
DataRows ==
  { << "D1", "D2", "C01" >>, << "D2", "D1", "C01" >>, << "D1", "D3", "C01" >>,
    << "D2", "D2", "C01" >>, << "D2", "D3", "C02" >> }

\* Key columns of the graph file, line by line (a key may repeat).
GraphFiles == { << "D1" >>, << "D1", "D2", "D1" >>, << "D1", "D2", "D3" >> }

None == [t |-> "NoneType", v |-> << >>]
PyStr(s) == [t |-> "str", v |-> << s >>]
PyInt(n) == [t |-> "int", v |-> << n >>]
PyList(s) == [t |-> "list", v |-> s]
TypeError == [t |-> "TypeError", v |-> << >>]

\* opt.path: argparse nargs=1 stores a one-element list, and None by default.
Paths == { None, PyList(<< "./data/" >>) }

\* Content of opt.qm9_labels: None when the file does not exist, else its lines,
\* each as l.split('\t') returns it.  The last file has a line without a tab.
LabelFiles ==
  { None,
    PyList(<< << "D1", "{}" >>, << "D2", "{}" >> >>),
    PyList(<< << "D1", "{}" >>, << "D2" >> >>) }

----------------------------------------------------------------------------
\* Helpers.

Range(s) == { s[k] : k \in DOMAIN s }

Min(a, b) == IF a < b THEN a ELSE b

SeqsUpTo(S, n) == UNION { [1..k -> S] : k \in 0..n }

\* Python s[a:b] for 0 <= a, 0 <= b (both clamped to len(s)).
Slice(s, a, b) == SubSeq(s, Min(a, Len(s)) + 1, Min(b, Len(s)))

\* The orders random.shuffle can leave a list in.
Shuffles(s) ==
  IF Len(s) = 0 THEN { << >> }
  ELSE { [k \in 1..Len(s) |-> s[f[k]]] : f \in Permutations(1..Len(s)) }

\* list(a_set): the elements once each, in an order the program does not fix.
ListsOf(S) ==
  { f \in [1..Cardinality(S) -> S] : \A a, b \in DOMAIN f : a # b => f[a] # f[b] }

\* Keys of a dict built from a sequence of keys: first occurrence order.
RECURSIVE DictKeys(_)
DictKeys(s) ==
  IF Len(s) = 0 THEN << >>
  ELSE LET front == DictKeys(SubSeq(s, 1, Len(s) - 1))
           last == s[Len(s)]
       IN IF last \in Range(front) THEN front ELSE Append(front, last)

\* x + y on Python values: defined for str + str and list + list only.
PyAdd(x, y) ==
  IF x.t = "TypeError" \/ y.t = "TypeError" THEN TypeError
  ELSE IF x.t = y.t /\ x.t \in {"str", "list"} THEN [t |-> x.t, v |-> x.v \o y.v]
  ELSE TypeError

EmptyDict == [keys |-> << >>, val |-> << >>]

----------------------------------------------------------------------------
VARIABLES
  pc,                  \* position in the run
  error, error_line,   \* uncaught exception and the line raising it
  datasets,            \* opt.datasets
  n_fold, debug, path, \* opt.n_fold, opt.debug, opt.path
  threshold,           \* threshold of read_ddi_instances
  graph_file,          \* content of opt.graph_data (key column)
  qm9_labels,          \* content of opt.qm9_labels
  csv,                 \* content of opt.ddi_data, header line first
  graph_dict,          \* keys of opt.graph_dict, in dict order
  labels_dict,         \* keys of opt.labels_dict, in dict order
  i,                   \* row index of the loop of read_ddi_instances
  side_effects,        \* side_effects of read_ddi_instances, then opt.side_effects
  side_effect_idx_dict,
  se_i,                \* position of the loop of prepare_dataset in se_dps_dict
  pos_se_ddp,          \* local of prepare_dataset
  positive_set, size, negative_set,   \* create_negative_instances
  pos_datasets, neg_datasets,
  pos_cv_dataset, neg_cv_dataset,
  fold_i,              \* loop of split_decagon_cv writing the folds
  files                \* fold files on disk: name |-> content

vars == << pc, error, error_line, datasets, n_fold, debug, path, threshold,
           graph_file, qm9_labels, csv, graph_dict, labels_dict, i,
           side_effects, side_effect_idx_dict,
           se_i, pos_se_ddp, positive_set, size, negative_set, pos_datasets,
           neg_datasets, pos_cv_dataset, neg_cv_dataset, fold_i, files >>

inputs == << datasets, n_fold, debug, path, threshold, graph_file, qm9_labels, csv >>

Csvs == { << >> } \cup { << HeaderRow >> \o body : body \in SeqsUpTo(DataRows, MaxRows) }

\* a rows of side effect C01 followed by b rows of side effect C02.
ExampleCsv(a, b) ==
  << HeaderRow >> \o [k \in 1..a |-> << "D1", "D2", "C01" >>]
                  \o [k \in 1..b |-> << "D2", "D3", "C02" >>]

\* A CSV whose side effect C01 has just the rows the default threshold asks for.
ThresholdCsv == ExampleCsv(DefaultThreshold, 1)

\* What no step of the run has touched yet.
NoError == error = "none" /\ error_line = 0

NoFolds ==
  /\ pos_cv_dataset = << >> /\ neg_cv_dataset = << >>
  /\ fold_i = 0
  /\ files = << >>

Fresh ==
  /\ NoError
  /\ graph_dict = << >>
  /\ labels_dict = << >>
  /\ i = 0
  /\ side_effects = EmptyDict
  /\ side_effect_idx_dict = << >>
  /\ se_i = 0
  /\ pos_se_ddp = << >>
  /\ positive_set = {} /\ size = 0 /\ negative_set = {}
  /\ pos_datasets = << >> /\ neg_datasets = << >>
  /\ NoFolds

\* The command line and the files it names.  -n_fold is any int (type=int);
\* the threshold is the default of read_ddi_instances, which the call at
\* lines 82-83 does not override.
Init ==
  /\ pc = "main"
  /\ datasets \in { {"decagon"}, {"qm9"}, {"qm9", "decagon"} }
  /\ n_fold \in (-1)..MaxFold
  /\ debug \in BOOLEAN
  /\ path \in Paths
  /\ threshold = DefaultThreshold
  /\ graph_file \in GraphFiles
  /\ qm9_labels \in LabelFiles
  /\ csv \in Csvs \cup {ThresholdCsv}
  /\ Fresh

Raise(exc, line) ==
  /\ pc' = "exit"
  /\ error' = exc
  /\ error_line' = line

----------------------------------------------------------------------------
\* main(): the qm9 branch runs first, then the decagon branch.

Main ==
  /\ pc = "main"
  /\ pc' = IF "qm9" \in datasets THEN "prepare_qm9_cv"
           ELSE IF "decagon" \in datasets THEN "read_graph_structure"
           ELSE "exit"
  /\ UNCHANGED << error, error_line, inputs, labels_dict, graph_dict, i, side_effects,
                  side_effect_idx_dict, se_i, pos_se_ddp, positive_set, size,
                  negative_set, pos_datasets, neg_datasets, pos_cv_dataset,
                  neg_cv_dataset, fold_i, files >>

\* `idx, labels` unpacks a line of exactly two fields.
Unpacks(line) == Len(line) = 2

\* Keys of the dict read_qm9_labels builds.
LabelKeys(lines) == DictKeys([k \in DOMAIN lines |-> lines[k][1]])

\* prepare_qm9_cv: loads the graphs, then the labels.  open() fails on a
\* missing labels file and the dict comprehension on a line without a tab.
PrepareQm9 ==
  /\ pc = "prepare_qm9_cv"
  /\ graph_dict' = DictKeys(graph_file)
  /\ IF qm9_labels = None
     THEN /\ Raise("FileNotFoundError", 93)
          /\ UNCHANGED labels_dict
     ELSE IF \E k \in DOMAIN qm9_labels.v : ~Unpacks(qm9_labels.v[k])
     THEN /\ Raise("ValueError", 95)
          /\ UNCHANGED labels_dict
     ELSE /\ labels_dict' = LabelKeys(qm9_labels.v)
          /\ pc' = "split_qm9_cv"
          /\ UNCHANGED << error, error_line >>
  /\ UNCHANGED << inputs, i, side_effects,
                  side_effect_idx_dict, se_i, pos_se_ddp, positive_set, size,
                  negative_set, pos_datasets, neg_datasets, pos_cv_dataset,
                  neg_cv_dataset, fold_i, files >>

\* split_qm9_cv: at i = 0, test_indices is empty and random.randint(0,) is
\* called with one argument, a TypeError.
SplitQm9 ==
  /\ pc = "split_qm9_cv"
  /\ Raise("TypeError", 137)
  /\ UNCHANGED << inputs, labels_dict, graph_dict, i, side_effects,
                  side_effect_idx_dict, se_i, pos_se_ddp, positive_set, size,
                  negative_set, pos_datasets, neg_datasets, pos_cv_dataset,
                  neg_cv_dataset, fold_i, files >>

\* read_graph_structure, as called by prepare_decagon_cv.
ReadGraph ==
  /\ pc = "read_graph_structure"
  /\ graph_dict' = DictKeys(graph_file)
  /\ pc' = "read_ddi_instances"
  /\ i' = 0
  /\ side_effects' = EmptyDict
  /\ UNCHANGED << error, error_line, inputs, labels_dict, side_effect_idx_dict, se_i,
                  pos_se_ddp, positive_set, size, negative_set, pos_datasets,
                  neg_datasets, pos_cv_dataset, neg_cv_dataset, fold_i, files >>

----------------------------------------------------------------------------
\* read_ddi_instances.

IsDataRow_SkipsTwo(idx) == idx > 1

\* `if i > 0`: the rows the loop takes as data (row 0 is the header).
IsDataRow(idx) == idx > 0

RowAssert_Skipped(did1, did2) == TRUE

\* `assert did1 != did2`.
RowAssert(did1, did2) == did1 # did2

\* `if sid not in side_effects: side_effects[sid] = []` and
\* `side_effects[sid] += [(did1, did2)]`.
AddPair(d, sid, pair) ==
  [keys |-> IF sid \in Range(d.keys) THEN d.keys ELSE Append(d.keys, sid),
   val |-> [k \in DOMAIN d.val \cup {sid} |->
              IF k = sid
              THEN (IF sid \in DOMAIN d.val THEN d.val[sid] ELSE << >>) \o << pair >>
              ELSE d.val[k]]]

\* The dict restricted to the keys of ks, iterated in the order of ks.
DictOf(ks, d) == [keys |-> ks, val |-> [k \in Range(ks) |-> d.val[k]]]

Frequent_Strict(ddis, th) == Len(ddis) > th

\* `len(ddis) >= threshold`.
Frequent(ddis, th) == Len(ddis) >= th

\* `{se: ddis for se, ddis in side_effects.items() if len(ddis) >= threshold}`.
FilterByThreshold(d, th) ==
  DictOf(SelectSeq(d.keys, LAMBDA k : Frequent(d.val[k], th)), d)

\* h placed in ks (sorted by decreasing length) after the keys that are
\* longer and before the others.
RECURSIVE InsertDesc(_, _, _)
InsertDesc(h, ks, d) ==
  IF Len(ks) = 0 THEN << h >>
  ELSE IF Len(d.val[Head(ks)]) > Len(d.val[h])
       THEN << Head(ks) >> \o InsertDesc(h, Tail(ks), d)
       ELSE << h >> \o ks

\* `sorted(side_effects.items(), key=lambda x: len(x[1]), reverse=True)`:
\* a stable sort, keys of equal length keep their dict order.
RECURSIVE SortedByLenDesc(_, _)
SortedByLenDesc(ks, d) ==
  IF Len(ks) = 0 THEN << >>
  ELSE InsertDesc(Head(ks), SortedByLenDesc(Tail(ks), d), d)

\* The `use_small_dataset` branch: the DebugKeep longest side effects.
SmallDataset(d) == DictOf(Slice(SortedByLenDesc(d.keys, d), 0, DebugKeep), d)

\* `{sid: idx for idx, sid in enumerate(side_effects)}`.
IdxDict(d) == [sid \in Range(d.keys) |-> (CHOOSE k \in DOMAIN d.keys : d.keys[k] = sid) - 1]

\* One iteration of `for i, row in enumerate(drug_reader)`.
ReadRow ==
  /\ pc = "read_ddi_instances"
  /\ i < Len(csv)
  /\ LET row == csv[i + 1]
         did1 == row[1]
         did2 == row[2]
         sid == row[3]
     IN IF ~IsDataRow(i)
        THEN /\ i' = i + 1
             /\ UNCHANGED << pc, error, error_line, side_effects >>
        ELSE IF ~RowAssert(did1, did2)
        THEN /\ Raise("AssertionError", 30)
             /\ UNCHANGED << i, side_effects >>
        ELSE /\ side_effects' = AddPair(side_effects, sid, << did1, did2 >>)
             /\ i' = i + 1
             /\ UNCHANGED << pc, error, error_line >>
  /\ UNCHANGED << inputs, labels_dict, graph_dict, side_effect_idx_dict, se_i, pos_se_ddp,
                  positive_set, size, negative_set, pos_datasets, neg_datasets,
                  pos_cv_dataset, neg_cv_dataset, fold_i, files >>

\* After the last row: the threshold filter, the debug cut, the index dict,
\* the return to prepare_decagon_cv and the entry into prepare_dataset.
ReadFinish ==
  /\ pc = "read_ddi_instances"
  /\ i = Len(csv)
  /\ LET filtered == FilterByThreshold(side_effects, threshold)
         kept == IF debug THEN SmallDataset(filtered) ELSE filtered
     IN /\ side_effects' = kept
        /\ side_effect_idx_dict' = IdxDict(kept)
  /\ pc' = "prepare_dataset"
  /\ se_i' = 0
  /\ pos_datasets' = << >>
  /\ neg_datasets' = << >>
  /\ UNCHANGED << error, error_line, inputs, labels_dict, graph_dict, i, pos_se_ddp,
                  positive_set, size, negative_set, pos_cv_dataset,
                  neg_cv_dataset, fold_i, files >>

----------------------------------------------------------------------------
\* prepare_dataset and create_negative_instances.

Rev(pair) == << pair[2], pair[1] >>

\* `np.random.choice(drug_idx_list, size=2, replace=False)`: two entries at
\* different positions of the list.
Choices(drug_idx_list) ==
  { << drug_idx_list[ab[1]], drug_idx_list[ab[2]] >> :
      ab \in { c \in (DOMAIN drug_idx_list) \X (DOMAIN drug_idx_list) : c[1] # c[2] } }

InNegativeSet_NoReverse(pair, negatives) == pair \in negatives

\* `neg_se_ddp1 in negative_set or neg_se_ddp2 in negative_set`.
InNegativeSet(pair, negatives) == pair \in negatives \/ Rev(pair) \in negatives

InPositiveSet_NoReverse(pair, positives) == pair \in positives

\* `neg_se_ddp1 in positive_set or neg_se_ddp2 in positive_set`.
InPositiveSet(pair, positives) == pair \in positives \/ Rev(pair) \in positives

TargetSize_SetSize(sz, positives) == Cardinality(positives)

\* `if not size: size = len(positive_set)`.
TargetSize(sz, positives) == IF sz = 0 THEN Cardinality(positives) ELSE sz

LoopContinues_Inclusive(negatives, sz) == Cardinality(negatives) <= sz

\* `while len(negative_set) < size`.
LoopContinues(negatives, sz) == Cardinality(negatives) < sz

\* Extension of a dict by one entry.
Put(f, k, v) == [x \in DOMAIN f \cup {k} |-> IF x = k THEN v ELSE f[x]]

\* Start of an iteration of `for i, se in enumerate(tqdm(se_dps_dict))`, up to
\* the loop head of create_negative_instances.
PrepareSe ==
  /\ pc = "prepare_dataset"
  /\ se_i < Len(side_effects.keys)
  /\ LET se == side_effects.keys[se_i + 1]
         copy == side_effects.val[se]
     IN /\ pos_se_ddp' = copy
        /\ positive_set' = Range(copy)
        /\ size' = TargetSize(Len(copy), Range(copy))
  /\ negative_set' = {}
  /\ pc' = "create_negative_instances"
  /\ UNCHANGED << error, error_line, inputs, labels_dict, graph_dict, i, side_effects,
                  side_effect_idx_dict, se_i, pos_datasets, neg_datasets,
                  pos_cv_dataset, neg_cv_dataset, fold_i, files >>

\* One iteration of `while len(negative_set) < size` drawing (drug1, drug2).
SampleStep(drug1, drug2) ==
  /\ pc = "create_negative_instances"
  /\ LoopContinues(negative_set, size)
  /\ Len(graph_dict) >= 2
  /\ << drug1, drug2 >> \in Choices(graph_dict)
  /\ IF drug1 = drug2
     THEN /\ Raise("AssertionError", 67)
          /\ UNCHANGED negative_set
     ELSE /\ negative_set' =
               IF \/ InNegativeSet(<< drug1, drug2 >>, negative_set)
                  \/ InPositiveSet(<< drug1, drug2 >>, positive_set)
               THEN negative_set
               ELSE negative_set \cup { << drug1, drug2 >> }
          /\ UNCHANGED << pc, error, error_line >>
  /\ UNCHANGED << inputs, labels_dict, graph_dict, i, side_effects, side_effect_idx_dict,
                  se_i, pos_se_ddp, positive_set, size, pos_datasets,
                  neg_datasets, pos_cv_dataset, neg_cv_dataset, fold_i, files >>

\* np.random.choice on fewer than two drugs with replace=False: ValueError.
SampleFail ==
  /\ pc = "create_negative_instances"
  /\ LoopContinues(negative_set, size)
  /\ Len(graph_dict) < 2
  /\ Raise("ValueError", 66)
  /\ UNCHANGED << inputs, labels_dict, graph_dict, i, side_effects, side_effect_idx_dict,
                  se_i, pos_se_ddp, positive_set, size, negative_set,
                  pos_datasets, neg_datasets, pos_cv_dataset, neg_cv_dataset,
                  fold_i, files >>

\* Loop exit: `return list(negative_set)`, the two shuffles and the stores.
SampleReturn ==
  /\ pc = "create_negative_instances"
  /\ ~LoopContinues(negative_set, size)
  /\ LET se == side_effects.keys[se_i + 1]
     IN \E returned \in ListsOf(negative_set) :
          \E pos \in Shuffles(pos_se_ddp), neg \in Shuffles(returned) :
            /\ pos_se_ddp' = pos
            /\ pos_datasets' = Put(pos_datasets, se, pos)
            /\ neg_datasets' = Put(neg_datasets, se, neg)
  /\ se_i' = se_i + 1
  /\ pc' = "prepare_dataset"
  /\ UNCHANGED << error, error_line, inputs, labels_dict, graph_dict, i, side_effects,
                  side_effect_idx_dict, positive_set, size, negative_set,
                  pos_cv_dataset, neg_cv_dataset, fold_i, files >>

\* prepare_dataset returns; prepare_decagon_cv returns; split_decagon_cv starts.
PrepareDone ==
  /\ pc = "prepare_dataset"
  /\ se_i = Len(side_effects.keys)
  /\ pc' = "split_decagon_cv"
  /\ UNCHANGED << error, error_line, inputs, labels_dict, graph_dict, i, side_effects,
                  side_effect_idx_dict, se_i, pos_se_ddp, positive_set, size,
                  negative_set, pos_datasets, neg_datasets, pos_cv_dataset,
                  neg_cv_dataset, fold_i, files >>

----------------------------------------------------------------------------
\* split_decagon_cv.

FoldLen_Ceil(n, nf) == (n + nf - 1) \div nf

\* `fold_len = len(datasets[se]) // n_fold`.
FoldLen(n, nf) == n \div nf

\* `fold_start = (fold_i - 1) * fold_len`.
FoldStart(x, n, nf) == (x - 1) * FoldLen(n, nf)

FoldEnd_NoRemainder(x, n, nf) == x * FoldLen(n, nf)

\* `fold_end = fold_i * fold_len` for fold_i < n_fold, else `len(datasets[se])`.
FoldEnd(x, n, nf) == IF x < nf THEN x * FoldLen(n, nf) ELSE n

split_all_cross_validation_datasets(ds, nf) ==
  [x \in 1..nf |->
     [se \in DOMAIN ds |->
        Slice(ds[se], FoldStart(x, Len(ds[se]), nf), FoldEnd(x, Len(ds[se]), nf))]]

\* `opt.path + "decagon/" + "folds/" + opt.n_fold + "fold.npy"`.
FoldFileName(p, nf) ==
  PyAdd(PyAdd(PyAdd(PyAdd(p, PyStr("decagon/")), PyStr("folds/")), PyInt(nf)),
        PyStr("fold.npy"))

\* `fold_dataset = {'pos': ..., 'neg': ...}`.
FoldDataset(x) == [pos |-> pos_cv_dataset[x], neg |-> neg_cv_dataset[x]]

\* `len(datasets[se]) // n_fold` divides by zero for the first side effect of
\* a non-empty dict when n_fold is 0.
DividesByZero(ds, nf) == nf = 0 /\ DOMAIN ds # {}

\* Lines 120-121.
Split ==
  /\ pc = "split_decagon_cv"
  /\ IF DividesByZero(pos_datasets, n_fold)
     THEN /\ Raise("ZeroDivisionError", 109)
          /\ UNCHANGED << pos_cv_dataset, neg_cv_dataset, fold_i >>
     ELSE IF DividesByZero(neg_datasets, n_fold)
     THEN /\ Raise("ZeroDivisionError", 109)
          /\ pos_cv_dataset' = split_all_cross_validation_datasets(pos_datasets, n_fold)
          /\ UNCHANGED << neg_cv_dataset, fold_i >>
     ELSE /\ pos_cv_dataset' = split_all_cross_validation_datasets(pos_datasets, n_fold)
          /\ neg_cv_dataset' = split_all_cross_validation_datasets(neg_datasets, n_fold)
          /\ fold_i' = 1
          /\ pc' = "write_folds"
          /\ UNCHANGED << error, error_line >>
  /\ UNCHANGED << inputs, labels_dict, graph_dict, i, side_effects,
                  side_effect_idx_dict, se_i, pos_se_ddp, positive_set, size,
                  negative_set, pos_datasets, neg_datasets, files >>

\* One iteration of `for fold_i in range(1, opt.n_fold + 1)`.  The file name
\* is computed first; open() without a mode opens an existing file for
\* reading, which f.write() then refuses.
WriteFold ==
  /\ pc = "write_folds"
  /\ LET name == FoldFileName(path, n_fold)
     IN IF fold_i > n_fold
        THEN /\ pc' = "exit"
             /\ UNCHANGED << error, error_line >>
        ELSE IF name.t = "TypeError" THEN Raise("TypeError", 124)
        ELSE IF name.v \notin DOMAIN files THEN Raise("FileNotFoundError", 124)
        ELSE Raise("UnsupportedOperation", 126)
  /\ UNCHANGED << inputs, labels_dict, graph_dict, i, side_effects, side_effect_idx_dict,
                  se_i, pos_se_ddp, positive_set, size, negative_set,
                  pos_datasets, neg_datasets, pos_cv_dataset, neg_cv_dataset,
                  fold_i, files >>

----------------------------------------------------------------------------
Next ==
  \/ Main
  \/ PrepareQm9
  \/ SplitQm9
  \/ ReadGraph
  \/ ReadRow
  \/ ReadFinish
  \/ PrepareSe
  \/ \E drug1 \in DrugUniverse, drug2 \in DrugUniverse : SampleStep(drug1, drug2)
  \/ SampleFail
  \/ SampleReturn
  \/ PrepareDone
  \/ Split
  \/ WriteFold

Spec == Init /\ [][Next]_vars

\* read_ddi_instances called with a threshold argument of at most
\* MaxThreshold on a small CSV, in the place of the call of lines 82-83: the
\* graph has been read, nothing else has happened.
InitCall ==
  /\ pc = "read_ddi_instances"
  /\ datasets = {"decagon"}
  /\ n_fold \in (-1)..MaxFold
  /\ debug \in BOOLEAN
  /\ path \in Paths
  /\ threshold \in 1..MaxThreshold
  /\ graph_file \in GraphFiles
  /\ qm9_labels = None
  /\ csv \in Csvs
  /\ NoError
  /\ graph_dict = DictKeys(graph_file)
  /\ labels_dict = << >>
  /\ i = 0
  /\ side_effects = EmptyDict
  /\ side_effect_idx_dict = << >>
  /\ se_i = 0
  /\ pos_se_ddp = << >>
  /\ positive_set = {} /\ size = 0 /\ negative_set = {}
  /\ pos_datasets = << >> /\ neg_datasets = << >>
  /\ NoFolds

\* The runs of main(), and the behaviours from a call of read_ddi_instances
\* with a small threshold on.
InitPipeline == Init \/ InitCall

SpecPipeline == InitPipeline /\ [][Next]_vars

----------------------------------------------------------------------------
\* Properties of the run of main() and of the pipeline (specification
\* SpecPipeline).

\* The positive pairs grouped under side effect se.
Positives(se) == Range(side_effects.val[se])

\* The pairs of se in the folds cv.
FoldPairs(cv, se) ==
  UNION { Range(cv[x][se]) : x \in { y \in DOMAIN cv : se \in DOMAIN cv[y] } }

\* Every negative pair held for se: returned, or in a fold.
NegativesOf(se) ==
  (IF se \in DOMAIN neg_datasets THEN Range(neg_datasets[se]) ELSE {})
    \cup FoldPairs(neg_cv_dataset, se)

\* The side effect whose negatives create_negative_instances is sampling.
Sampling == pc = "create_negative_instances"
CurrentSe == side_effects.keys[se_i + 1]

Distinct(pair) == pair[1] # pair[2]

AllPairs ==
  UNION { Range(side_effects.val[se]) : se \in DOMAIN side_effects.val }
    \cup Range(pos_se_ddp) \cup positive_set \cup negative_set
    \cup UNION { Range(pos_datasets[se]) : se \in DOMAIN pos_datasets }
    \cup UNION { Range(neg_datasets[se]) : se \in DOMAIN neg_datasets }
    \cup UNION { FoldPairs(pos_cv_dataset, se) : se \in DOMAIN pos_datasets }
    \cup UNION { FoldPairs(neg_cv_dataset, se) : se \in DOMAIN neg_datasets }

\* C6: every drug pair the program holds (grouped positives, sampled
\* negatives, pairs in a fold) names two different drugs.
C6_PairsDistinct == \A pair \in AllPairs : Distinct(pair)

\* Rows have been read from the CSV, negatives sampled for them and returned,
\* and the folds hold positive and negative pairs.
C6_Witness ==
  /\ pc = "write_folds"
  /\ i = Len(csv) /\ Len(csv) >= 2
  /\ \E se \in DOMAIN pos_datasets :
       FoldPairs(pos_cv_dataset, se) # {} /\ FoldPairs(neg_cv_dataset, se) # {}

\* Data rows of the CSV that name one drug in both drug columns (positions in
\* csv, where position 1 is the header).
SelfPairRows == { k \in 2..Len(csv) : csv[k][1] = csv[k][2] }

FirstSelfPairRow == CHOOSE k \in SelfPairRows : \A m \in SelfPairRows : k <= m

\* The decagon branch has been entered: the run is past main and the qm9
\* branch and has not ended in the qm9 branch.
DecagonRun ==
  /\ pc \notin {"main", "prepare_qm9_cv", "split_qm9_cv"}
  /\ error_line \notin {93, 95, 137}

\* C7: if a data row names one drug twice, read_ddi_instances raises an
\* assertion error at the first such row and the run ends there: no later row
\* is read, no negative is sampled, nothing is split, no file is written.
C7_SelfPairFatal ==
  SelfPairRows # {} =>
    /\ pc \notin {"prepare_dataset", "create_negative_instances",
                  "split_decagon_cv", "write_folds"}
    /\ i <= FirstSelfPairRow - 1
    /\ (pc = "exit" /\ DecagonRun) =>
         /\ error = "AssertionError" /\ error_line = 30
         /\ i = FirstSelfPairRow - 1
    /\ negative_set = {} /\ pos_datasets = << >> /\ neg_datasets = << >>
    /\ pos_cv_dataset = << >> /\ neg_cv_dataset = << >>
    /\ files = << >>

\* The assertion has failed on a row that follows accepted data rows.
C7_Witness ==
  /\ pc = "exit" /\ error = "AssertionError"
  /\ i >= 2
  /\ side_effects.keys # << >>

\* C4: once split_decagon_cv has run for n_fold >= 1, each fold 1..n_fold has
\* its own file, holding {'pos': ..., 'neg': ...} of that fold.
C4_FoldFiles ==
  (pc = "exit" /\ n_fold >= 1 /\ DOMAIN pos_cv_dataset = 1..n_fold) =>
    /\ Cardinality(DOMAIN files) = n_fold
    /\ \E name \in [1..n_fold -> DOMAIN files] :
         /\ \A x \in 1..n_fold : \A y \in 1..n_fold : x # y => name[x] # name[y]
         /\ \A x \in 1..n_fold : files[name[x]] = FoldDataset(x)

----------------------------------------------------------------------------
\* read_ddi_instances on its own (specification SpecRead): from its call to
\* its return, threshold being the parameter of the function, on the small
\* CSVs, on CSVs of the size the default threshold is about and on a CSV with
\* more than DebugKeep side effects.

\* CSVs with row counts around the default threshold.
ExampleCsvs == { ExampleCsv(500, 100), ExampleCsv(498, 497), ExampleCsv(497, 500) }

\* One row for each of the 21 side effects, then a second row for the last.
WideCsv ==
  << HeaderRow >> \o [k \in 1..Len(SideEffectIds) |-> << "D1", "D2", SideEffectIds[k] >>]
                  \o << << "D2", "D3", SideEffectIds[Len(SideEffectIds)] >> >>

\* What a call of one function leaves untouched of the rest of the program.
Apart ==
  /\ datasets = {"decagon"}
  /\ qm9_labels = None
  /\ labels_dict = << >>
  /\ NoError
  /\ NoFolds

InitRead ==
  /\ pc = "read_ddi_instances"
  /\ Apart
  /\ n_fold = 1
  /\ debug \in BOOLEAN
  /\ path = None
  /\ threshold \in (1..MaxThreshold) \cup {DefaultThreshold}
  /\ graph_file = << "D1", "D2", "D3" >>
  /\ csv \in Csvs \cup ExampleCsvs \cup {WideCsv}
  /\ graph_dict = DictKeys(graph_file)
  /\ i = 0
  /\ side_effects = EmptyDict
  /\ side_effect_idx_dict = << >>
  /\ se_i = 0
  /\ pos_se_ddp = << >>
  /\ positive_set = {} /\ size = 0 /\ negative_set = {}
  /\ pos_datasets = << >> /\ neg_datasets = << >>

NextRead == ReadRow \/ ReadFinish

SpecRead == InitRead /\ [][NextRead]_vars

\* Number of data rows of the CSV carrying side effect sid.
RowCount(sid) == Cardinality({ k \in 2..Len(csv) : csv[k][3] = sid })

RowSideEffects == { csv[k][3] : k \in 2..Len(csv) }

ReadReturned == pc = "prepare_dataset"

\* C3: with debug off the returned mapping holds exactly the side effects with
\* at least threshold data rows (500 rows are kept and 100 dropped at
\* threshold 498); with debug on it holds only such side effects.
C3_ThresholdFilter ==
  ReadReturned =>
    /\ DOMAIN side_effects.val = Range(side_effects.keys)
    /\ ~debug =>
         Range(side_effects.keys) = { sid \in RowSideEffects : RowCount(sid) >= threshold }
    /\ debug =>
         Range(side_effects.keys) \subseteq
           { sid \in RowSideEffects : RowCount(sid) >= threshold }
    /\ \A sid \in Range(side_effects.keys) :
         Len(side_effects.val[sid]) = RowCount(sid)
    /\ (threshold = 498 /\ ~debug) =>
         \A sid \in RowSideEffects :
           /\ RowCount(sid) = 500 => sid \in Range(side_effects.keys)
           /\ RowCount(sid) = 100 => sid \notin Range(side_effects.keys)

\* The example of the specification: 500 rows kept, 100 rows dropped.
C3_Witness ==
  /\ ReadReturned /\ ~debug /\ threshold = 498
  /\ RowCount("C01") = 500 /\ RowCount("C02") = 100
  /\ side_effects.keys = << "C01" >>

----------------------------------------------------------------------------
\* prepare_dataset on its own, followed by split_decagon_cv (specification
\* SpecPrepare): prepare_dataset(se_dps_dict, drug_structure_dict) is called
\* with a mapping of up to MaxRows pairs and the drugs of a graph file, and
\* split_decagon_cv with what it returns.  No CSV is read (csv is None); the
\* pairs of the mapping name two different drugs, as read_ddi_instances
\* asserts of every pair it stores.

PreparePairs == { << "D1", "D2" >>, << "D2", "D1" >>, << "D1", "D3" >> }

\* The dict with keys ks (in this order), l1 under C01 and l2 under C02.
SeDict(ks, l1, l2) ==
  [keys |-> ks, val |-> [se \in Range(ks) |-> IF se = "C01" THEN l1 ELSE l2]]

\* Arguments se_dps_dict: side effect C01 with a list of pairs (repeats and
\* reverses included), side effect C02 with one pair, in either dict order.
SeDicts ==
  { EmptyDict, SeDict(<< "C02" >>, << >>, << << "D2", "D3" >> >>) }
    \cup { SeDict(<< "C01" >>, l1, << >>) :
             l1 \in SeqsUpTo(PreparePairs, MaxRows) \ { << >> } }
    \cup { SeDict(ks, l1, << << "D2", "D3" >> >>) :
             ks \in { << "C01", "C02" >>, << "C02", "C01" >> },
             l1 \in SeqsUpTo(PreparePairs, MaxRows - 1) \ { << >> } }

InitPrepare ==
  /\ pc = "prepare_dataset"
  /\ Apart
  /\ n_fold \in (-1)..MaxFold
  /\ debug = FALSE
  /\ path \in Paths
  /\ threshold = DefaultThreshold
  /\ graph_file \in GraphFiles
  /\ csv = None
  /\ graph_dict = DictKeys(graph_file)
  /\ i = 0
  /\ side_effects \in SeDicts
  /\ side_effect_idx_dict = IdxDict(side_effects)
  /\ se_i = 0
  /\ pos_se_ddp = << >>
  /\ positive_set = {} /\ size = 0 /\ negative_set = {}
  /\ pos_datasets = << >> /\ neg_datasets = << >>

NextPrepare ==
  \/ PrepareSe
  \/ \E drug1 \in DrugUniverse, drug2 \in DrugUniverse : SampleStep(drug1, drug2)
  \/ SampleFail
  \/ SampleReturn
  \/ PrepareDone
  \/ Split
  \/ WriteFold

SpecPrepare == InitPrepare /\ [][NextPrepare]_vars

\* C1: no generated negative pair of a side effect, returned by
\* create_negative_instances or placed in a fold's 'neg' mapping, is a positive
\* pair of that side effect, and neither is its reverse.
C1_NegativesNotPositive ==
  /\ \A se \in Range(side_effects.keys) :
       \A pair \in NegativesOf(se) :
         pair \notin Positives(se) /\ Rev(pair) \notin Positives(se)
  /\ Sampling =>
       \A pair \in negative_set :
         pair \notin Positives(CurrentSe) /\ Rev(pair) \notin Positives(CurrentSe)

\* A fold holds a negative pair whose reverse could have been drawn while the
\* positive set holds only one orientation of some pair.
C1_Witness ==
  /\ pc = "write_folds"
  /\ \E se \in DOMAIN neg_datasets :
       /\ FoldPairs(neg_cv_dataset, se) # {}
       /\ \E pair \in Positives(se) : Rev(pair) \notin Positives(se)

\* C5: every side effect of the mapping gets as many negative pairs as it has
\* positive pairs, counted with repetitions.
C5_EqualSize ==
  /\ DOMAIN neg_datasets = DOMAIN pos_datasets
  /\ \A se \in DOMAIN neg_datasets :
       /\ Len(neg_datasets[se]) = Len(pos_datasets[se])
       /\ Len(neg_datasets[se]) = Len(side_effects.val[se])
  /\ pc \in {"split_decagon_cv", "write_folds"} =>
       DOMAIN neg_datasets = Range(side_effects.keys)

\* prepare_dataset has finished for a side effect whose positive list repeats
\* a pair.
C5_Witness ==
  /\ pc = "split_decagon_cv"
  /\ \E se \in DOMAIN neg_datasets :
       /\ Len(pos_datasets[se]) = 2
       /\ pos_datasets[se][1] = pos_datasets[se][2]
       /\ Len(neg_datasets[se]) = 2

Unordered(pair) == { pair[1], pair[2] }

\* Positions (fold, index) of the negative folds of se.
NegPositions(se) ==
  UNION { { << x, a >> : a \in DOMAIN neg_cv_dataset[x][se] } :
            x \in { y \in DOMAIN neg_cv_dataset : se \in DOMAIN neg_cv_dataset[y] } }

\* C10: the negative pairs of a side effect are pairwise distinct as unordered
\* pairs, during sampling, in the returned list and across the folds.
C10_NegativesUnique ==
  /\ \A p \in negative_set : \A q \in negative_set :
       p # q => Unordered(p) # Unordered(q)
  /\ \A se \in DOMAIN neg_datasets :
       \A a \in DOMAIN neg_datasets[se] : \A b \in DOMAIN neg_datasets[se] :
         a # b => Unordered(neg_datasets[se][a]) # Unordered(neg_datasets[se][b])
  /\ \A se \in DOMAIN neg_datasets :
       \A xa \in NegPositions(se) : \A yb \in NegPositions(se) :
         xa # yb => Unordered(neg_cv_dataset[xa[1]][se][xa[2]])
                      # Unordered(neg_cv_dataset[yb[1]][se][yb[2]])

\* Two negative pairs of one side effect lie in two different folds.
C10_Witness ==
  /\ pc = "write_folds"
  /\ \E se \in DOMAIN neg_datasets :
       \E x \in DOMAIN neg_cv_dataset : \E y \in DOMAIN neg_cv_dataset :
         x # y /\ neg_cv_dataset[x][se] # << >> /\ neg_cv_dataset[y][se] # << >>

----------------------------------------------------------------------------
\* prepare_dataset under fair random choice (specification FairSpec): from the
\* call of prepare_dataset to its return; the call goes on while it can, and a
\* pair of drugs that the sampling loop would accept is eventually drawn.

InitFair ==
  /\ InitPrepare
  /\ n_fold = 1
  /\ path = None

NextFair ==
  \/ PrepareSe
  \/ \E drug1 \in DrugUniverse, drug2 \in DrugUniverse : SampleStep(drug1, drug2)
  \/ SampleFail
  \/ SampleReturn
  \/ PrepareDone

FairSpec ==
  /\ InitFair
  /\ [][NextFair]_vars
  /\ WF_vars(NextFair)
  /\ \A drug1 \in DrugUniverse, drug2 \in DrugUniverse :
       WF_vars(SampleStep(drug1, drug2))

\* Number of unordered pairs of listed drugs that are in positives in neither
\* orientation.
AvailableFor(positives) ==
  Cardinality({ Unordered(c) :
                  c \in { d \in Choices(graph_dict) :
                            d \notin positives /\ Rev(d) \notin positives } })

Available == AvailableFor(positive_set)

\* Every side effect of the mapping leaves as many pairs available as it has
\* positive pairs.
AllFeasible ==
  \A se \in Range(side_effects.keys) :
    AvailableFor(Positives(se)) >= Len(side_effects.val[se])

\* create_negative_instances has returned a list of `size` pairs.
Returned ==
  /\ pc = "prepare_dataset"
  /\ se_i >= 1
  /\ side_effects.keys[se_i] \in DOMAIN neg_datasets
  /\ Len(neg_datasets[side_effects.keys[se_i]]) = size

Prepared == pc = "split_decagon_cv" /\ DOMAIN neg_datasets = Range(side_effects.keys)

\* C8 as stated: with at least two drugs the sampling loop always ends with
\* `size` pairs, and prepare_dataset finishes for all side effects.
C8_AlwaysReturns ==
  /\ (Sampling /\ Len(graph_dict) >= 2) ~> Returned
  /\ (pc = "prepare_dataset" /\ Len(graph_dict) >= 2) ~> Prepared

\* C8 amended: with at least two drugs the sampling loop ends with `size`
\* pairs when at least `size` unordered pairs of listed drugs lie outside the
\* positive set, and prepare_dataset finishes when that is so for every
\* side effect of the mapping.
C8_ReturnsWhenFeasible ==
  /\ (Sampling /\ Len(graph_dict) >= 2 /\ Available >= size) ~> Returned
  /\ (pc = "prepare_dataset" /\ Len(graph_dict) >= 2 /\ AllFeasible) ~> Prepared

\* The loop has returned in a case with just enough pairs available.
C8_Witness ==
  /\ Returned
  /\ size = 2
  /\ Available = 2

----------------------------------------------------------------------------
\* split_decagon_cv on its own (specification SpecSplit): called with
\* opt.pos_datasets and opt.neg_datasets holding, for side effect C01, a
\* positive list of up to MaxLen pairs in any order and as many distinct
\* negative pairs from outside the positive set, and optionally one pair of
\* each kind for side effect C02.  No CSV is read (csv is None).

MaxLen == 4

SplitGraph == << "D1", "D2", "D3", "D4", "D5" >>

SplitPositives == << << "D1", "D2" >>, << "D2", "D1" >>, << "D1", "D3" >> >>

SplitNegatives ==
  { << "D4", "D5" >>, << "D3", "D4" >>, << "D5", "D1" >>, << "D2", "D4" >>,
    << "D3", "D5" >> }

Occurrences(s, pair) == Cardinality({ k \in DOMAIN s : s[k] = pair })

\* The pairs of the list pos grouped in the order of SplitPositives: a list
\* that random.shuffle can turn into pos.
RECURSIVE Grouped(_, _)
Grouped(pos, k) ==
  IF k = 0 THEN << >>
  ELSE Grouped(pos, k - 1)
         \o [a \in 1..Occurrences(pos, SplitPositives[k]) |-> SplitPositives[k]]

InitSplit ==
  /\ pc = "split_decagon_cv"
  /\ Apart
  /\ n_fold \in (-1)..MaxFold
  /\ debug = FALSE
  /\ path = None
  /\ threshold = DefaultThreshold
  /\ graph_file = SplitGraph
  /\ csv = None
  /\ graph_dict = DictKeys(graph_file)
  /\ i = 0
  /\ \E pos \in SeqsUpTo(Range(SplitPositives), MaxLen), second \in BOOLEAN :
       \E neg \in UNION { ListsOf(S) : S \in SUBSET SplitNegatives } :
         /\ Len(neg) = Len(pos)
         /\ side_effects =
              SeDict((IF pos = << >> THEN << >> ELSE << "C01" >>)
                       \o (IF second THEN << "C02" >> ELSE << >>),
                     Grouped(pos, Len(SplitPositives)), << << "D2", "D3" >> >>)
         /\ pos_datasets = [se \in Range(side_effects.keys) |->
                              IF se = "C01" THEN pos ELSE << << "D2", "D3" >> >>]
         /\ neg_datasets = [se \in Range(side_effects.keys) |->
                              IF se = "C01" THEN neg ELSE << << "D1", "D4" >> >>]
  /\ side_effect_idx_dict = IdxDict(side_effects)
  /\ se_i = Len(side_effects.keys)
  /\ IF se_i = 0
     THEN pos_se_ddp = << >> /\ positive_set = {} /\ size = 0 /\ negative_set = {}
     ELSE LET se == side_effects.keys[se_i]
          IN /\ pos_se_ddp = pos_datasets[se]
             /\ positive_set = Range(pos_datasets[se])
             /\ size = Len(pos_datasets[se])
             /\ negative_set = Range(neg_datasets[se])

NextSplit == Split \/ WriteFold

SpecSplit == InitSplit /\ [][NextSplit]_vars

\* split_all_cross_validation_datasets has returned for both dicts, for a
\* fold count of at least 1.
SplitDone == n_fold >= 1 /\ DOMAIN pos_cv_dataset = 1..n_fold /\ DOMAIN neg_cv_dataset = 1..n_fold

RECURSIVE SumLen(_, _, _)
SumLen(cv, se, x) == IF x = 0 THEN 0 ELSE SumLen(cv, se, x - 1) + Len(cv[x][se])

RECURSIVE SumOccurrences(_, _, _, _)
SumOccurrences(cv, se, pair, x) ==
  IF x = 0 THEN 0
  ELSE SumOccurrences(cv, se, pair, x - 1) + Occurrences(cv[x][se], pair)

NothingLost(ds, cv) ==
  /\ DOMAIN cv = 1..n_fold
  /\ \A x \in 1..n_fold : DOMAIN cv[x] = DOMAIN ds
  /\ \A se \in DOMAIN ds :
       /\ SumLen(cv, se, n_fold) = Len(ds[se])
       /\ \A pair \in Range(ds[se]) \cup FoldPairs(cv, se) :
            SumOccurrences(cv, se, pair, n_fold) = Occurrences(ds[se], pair)

\* C2: for n_fold >= 1 and every side effect the fold sizes add up to the
\* number of its pairs, positive and negative alike, and every pair occurs in
\* the folds as often as in the list: none is lost, none is in two folds.
C2_FoldsPartition ==
  SplitDone =>
    NothingLost(pos_datasets, pos_cv_dataset) /\ NothingLost(neg_datasets, neg_cv_dataset)

\* Four pairs, one of them repeated, split into three folds.
C2_Witness ==
  /\ SplitDone /\ n_fold = 3
  /\ "C01" \in DOMAIN pos_datasets
  /\ Len(pos_datasets["C01"]) = 4
  /\ pos_datasets["C01"][1] = pos_datasets["C01"][4]
  /\ Len(pos_cv_dataset[3]["C01"]) = 2

RECURSIVE ConcatFolds(_, _, _)
ConcatFolds(cv, se, x) ==
  IF x = 0 THEN << >> ELSE ConcatFolds(cv, se, x - 1) \o cv[x][se]

ContiguousSlices(ds, cv) ==
  \A se \in DOMAIN ds :
    LET n == Len(ds[se])
        N == n_fold
        L == n \div N
    IN /\ \A x \in 1..(N - 1) :
            /\ Len(cv[x][se]) = L
            /\ \A k \in 1..L : cv[x][se][k] = ds[se][(x - 1) * L + k]
       /\ Len(cv[N][se]) = L + (n % N)
       /\ \A k \in 1..(n - (N - 1) * L) : cv[N][se][k] = ds[se][(N - 1) * L + k]
       /\ ConcatFolds(cv, se, N) = ds[se]
       /\ n < N => cv[N][se] = ds[se]

\* C9: for n_fold >= 1 each list of length n is cut into n_fold contiguous
\* slices in order: with L = n div n_fold, fold x < n_fold is elements
\* (x-1)L+1..xL, the last fold is the rest, so it has L + n mod n_fold elements.
C9_ContiguousSlices ==
  SplitDone =>
    ContiguousSlices(pos_datasets, pos_cv_dataset)
      /\ ContiguousSlices(neg_datasets, neg_cv_dataset)

\* Three different pairs in two folds: one pair, then two.
C9_Witness ==
  /\ SplitDone /\ n_fold = 2
  /\ "C01" \in DOMAIN pos_datasets
  /\ Len(pos_datasets["C01"]) = 3
  /\ Cardinality(Range(pos_datasets["C01"])) = 3
  /\ Len(pos_cv_dataset[1]["C01"]) = 1
  /\ Len(pos_cv_dataset[2]["C01"]) = 2

====
